---- MODULE Spec2Model ----
(***************************************************************************)
(* Model of the 3GPP PM parser core (src/pmparser/core.py):                *)
(*   - XMLProcessor.process_file : the XML-to-record projection,           *)
(*   - PMParser._get_files_to_process : file resolution,                   *)
(*   - PMParser.process_files : the parallel orchestrator.                 *)
(* Strings that the code inspects character by character (the "p"         *)
(* attribute, reading text, file names, regular expressions) are tuples of *)
(* one-character strings.  An Optional[x] is the set {} (None) or {x}.     *)
(***************************************************************************)
EXTENDS Integers, Sequences, FiniteSets, Bags, TLC

VARIABLES
    config,     \* ParserConfig
    fs,         \* the file system: path -> node, for the paths that exist
    hasHandler, \* PMParser.output_handler is set
    pc,         \* position of the modelled call
    files,      \* process_files: the resolved list
    futures,    \* process_files: state of each dispatched call
    completed,  \* as_completed: finished futures not yet yielded, in order
    collected,  \* as_completed: futures already yielded, in order
    results,    \* process_files: the aggregate, as the loop builds it
    log,        \* logger.error calls of process_files
    writes,     \* arguments of the output_handler.write calls
    outcome,    \* what process_files returned or raised
    doc,        \* SpecExtract: the XML document handed to process_file
    out         \* SpecExtract: what process_file returned or raised

vars == <<config, fs, hasHandler, pc, files, futures, completed, collected,
          results, log, writes, outcome, doc, out>>

runVars == <<fs, hasHandler, files, futures, completed, collected, results,
             log, writes, outcome>>

\* ------------------------------------------------------------------ bounds
MaxNodes == 4

MaxPlainNodes == 6

MaxEntries == 3

MaxWorkers == 2

\* ------------------------------------------------------- python primitives
None == {}

Some(x) == {x}

TheValue(opt) == CHOOSE x \in opt : TRUE

Range(s) == {s[i] : i \in DOMAIN s}

MaxOf(S) == CHOOSE x \in S : \A y \in S : y <= x

RECURSIVE Concat(_)
Concat(ss) == IF ss = <<>> THEN <<>> ELSE ss[1] \o Concat(Tail(ss))

RECURSIVE SumSeq(_)
SumSeq(s) == IF s = <<>> THEN 0 ELSE s[1] + SumSeq(Tail(s))

Digits == <<"0", "1", "2", "3", "4", "5", "6", "7", "8", "9">>

\* int() and float() read a decimal digit of any script as the ASCII digit of
\* its value: the ASCII digits, and the digits of the other scripts that a
\* string of this module can hold, each row from 0 to 9.
DigitRows ==
    << Digits,
       <<"۰", "۱", "۲", "۳", "۴", "۵", "۶", "۷", "۸", "۹">>,
       <<"߀", "߁", "߂", "߃", "߄", "߅", "߆", "߇", "߈", "߉">>,
       <<"০", "১", "২", "৩", "৪", "৫", "৬", "৭", "৮", "৯">>,
       <<"૦", "૧", "૨", "૩", "૪", "૫", "૬", "૭", "૮", "૯">>,
       <<"௦", "௧", "௨", "௩", "௪", "௫", "௬", "௭", "௮", "௯">>,
       <<"೦", "೧", "೨", "೩", "೪", "೫", "೬", "೭", "೮", "೯">>,
       <<"෦", "෧", "෨", "෩", "෪", "෫", "෬", "෭", "෮", "෯">>,
       <<"໐", "໑", "໒", "໓", "໔", "໕", "໖", "໗", "໘", "໙">>,
       <<"႐", "႑", "႒", "႓", "႔", "႕", "႖", "႗", "႘", "႙">>,
       <<"០", "១", "២", "៣", "៤", "៥", "៦", "៧", "៨", "៩">>,
       <<"᧐", "᧑", "᧒", "᧓", "᧔", "᧕", "᧖", "᧗", "᧘", "᧙">>,
       <<"᪀", "᪁", "᪂", "᪃", "᪄", "᪅", "᪆", "᪇", "᪈", "᪉">>,
       <<"᪐", "᪑", "᪒", "᪓", "᪔", "᪕", "᪖", "᪗", "᪘", "᪙">>,
       <<"᮰", "᮱", "᮲", "᮳", "᮴", "᮵", "᮶", "᮷", "᮸", "᮹">>,
       <<"꣐", "꣑", "꣒", "꣓", "꣔", "꣕", "꣖", "꣗", "꣘", "꣙">>,
       <<"꧐", "꧑", "꧒", "꧓", "꧔", "꧕", "꧖", "꧗", "꧘", "꧙">>,
       <<"꧰", "꧱", "꧲", "꧳", "꧴", "꧵", "꧶", "꧷", "꧸", "꧹">>,
       <<"꯰", "꯱", "꯲", "꯳", "꯴", "꯵", "꯶", "꯷", "꯸", "꯹">> >>

AllDigits == UNION {Range(DigitRows[r]) : r \in DOMAIN DigitRows}

DigitValue ==
    [c \in AllDigits |->
        (CHOOSE i \in 1 .. 10 : \E r \in DOMAIN DigitRows : DigitRows[r][i] = c) - 1]

IsDigit(c) == c \in AllDigits

DigitVal(c) == DigitValue[c]

MinOf(S) == CHOOSE x \in S : \A y \in S : x <= y

Last(s) == s[Len(s)]

Zeros(n) == [i \in 1 .. n |-> 0]

\* The white space int() and float() strip, as far as a string of this module
\* can hold it: space, tab, line feed, vertical tab, form feed, carriage
\* return, U+0085, U+00A0 and U+1680 (U+2000 to U+200A, U+2028, U+2029,
\* U+202F, U+205F and U+3000, stripped as well, cannot be written here).
Whitespace == {" ", "\t", "\n", "", "\f", "\r", "", " ", " "}

\* s.strip()
Strip(s) ==
    LET ns == {i \in DOMAIN s : s[i] \notin Whitespace}
    IN  IF ns = {} THEN <<>> ELSE SubSeq(s, MinOf(ns), MaxOf(ns))

Negative(s) == s # <<>> /\ s[1] = "-"

\* s without its leading sign, if it has one.
Unsigned(s) == IF s # <<>> /\ s[1] \in {"+", "-"} THEN Tail(s) ELSE s

\* digit (["_"] digit)* : digits, single underscores only between digits.
DigitPart(s) ==
    /\ s # <<>>
    /\ \A i \in DOMAIN s : IsDigit(s[i]) \/ s[i] = "_"
    /\ IsDigit(s[1]) /\ IsDigit(Last(s))
    /\ \A i \in 1 .. Len(s) - 1 : ~(s[i] = "_" /\ s[i + 1] = "_")

\* The digits of s, as ASCII digits.
DigitsOf(s) ==
    LET ds == SelectSeq(s, IsDigit)
    IN  [i \in DOMAIN ds |-> Digits[DigitVal(ds[i]) + 1]]

\* ds without the leading members equal to z.
StripLeading(ds, z) ==
    LET nz == {i \in DOMAIN ds : ds[i] # z}
    IN  IF nz = {} THEN <<>> ELSE SubSeq(ds, MinOf(nz), Len(ds))

\* The number of trailing members of ds equal to z.
Trailing(ds, z) ==
    LET nz == {i \in DOMAIN ds : ds[i] # z}
    IN  IF nz = {} THEN Len(ds) ELSE Len(ds) - MaxOf(nz)

\* The value of a short digit string.
RECURSIVE DecVal(_)
DecVal(s) ==
    IF s = <<>> THEN 0
    ELSE 10 * DecVal(SubSeq(s, 1, Len(s) - 1)) + DigitVal(Last(s))

\* CPython refuses to convert a string of more than 4300 digits to an int.
MaxStrDigits == 4300

\* int(p): white space is stripped, then an optional sign and a DigitPart
\* parse; anything else raises ValueError.  A Python int has no width: its
\* value is kept as its canonical decimal numeral ("-" and the digits without
\* leading zeros), so equal ints are equal values.
PyInt(s) ==
    LET Numeral(neg, m) ==
            [ok |-> TRUE,
             val |-> IF m = <<>> THEN <<"0">>
                     ELSE IF neg THEN <<"-">> \o m ELSE m]
        Signed(t, u) ==
            IF DigitPart(u) /\ Len(DigitsOf(u)) <= MaxStrDigits
            THEN Numeral(Negative(t), StripLeading(DigitsOf(u), "0"))
            ELSE [ok |-> FALSE]
        Stripped(t) == Signed(t, Unsigned(t))
    IN  Stripped(Strip(s))

RECURSIVE NatStr(_)
NatStr(n) ==
    IF n < 10 THEN <<Digits[n + 1]>>
    ELSE NatStr(n \div 10) \o <<Digits[(n % 10) + 1]>>

\* str(n) of an integer: its canonical decimal numeral.
PyStr(n) == IF n < 0 THEN <<"-">> \o NatStr(-n) ELSE NatStr(n)

\* ----------------------------------------------------------------- float()
\* A natural number of any width is the tuple of its digits in base 2^15,
\* least significant first, the most significant one not 0 (<<>> is 0).
\* The loops over digits split their range in two, which keeps the nesting
\* of the evaluation logarithmic.
Base == 32768

BaseBits == 15

RECURSIVE Pow2(_)
Pow2(n) == IF n = 0 THEN 1 ELSE 2 * Pow2(n - 1)

Norm(a) == SubSeq(a, 1, Len(a) - Trailing(a, 0))

\* a[lo..hi] * m + c: the digits, and the carry out of them.
RECURSIVE MulRange(_, _, _, _, _)
MulRange(a, m, lo, hi, c) ==
    IF lo > hi THEN [d |-> <<>>, c |-> c]
    ELSE IF lo = hi
    THEN [d |-> <<(a[lo] * m + c) % Base>>, c |-> (a[lo] * m + c) \div Base]
    ELSE LET L == MulRange(a, m, lo, (lo + hi) \div 2, c)
             H == MulRange(a, m, (lo + hi) \div 2 + 1, hi, L.c)
         IN  [d |-> L.d \o H.d, c |-> H.c]

\* a * m + c, for m and c below Base.
MulSmall(a, m, c) ==
    LET r == MulRange(a, m, 1, Len(a), c) IN Norm(Append(r.d, r.c))

\* a[lo..hi] - b[lo..hi] - c: the digits, and the borrow out of them.
RECURSIVE SubRange(_, _, _, _, _)
SubRange(a, b, lo, hi, c) ==
    IF lo > hi THEN [d |-> <<>>, c |-> c]
    ELSE IF lo = hi
    THEN LET x == a[lo] - (IF lo <= Len(b) THEN b[lo] ELSE 0) - c
         IN  [d |-> <<IF x < 0 THEN x + Base ELSE x>>,
              c |-> IF x < 0 THEN 1 ELSE 0]
    ELSE LET L == SubRange(a, b, lo, (lo + hi) \div 2, c)
             H == SubRange(a, b, (lo + hi) \div 2 + 1, hi, L.c)
         IN  [d |-> L.d \o H.d, c |-> H.c]

\* a - b, for a >= b.
BigSub(a, b) == Norm(SubRange(a, b, 1, Len(a), 0).d)

BigGeq(a, b) ==
    \/ Len(a) > Len(b)
    \/ /\ Len(a) = Len(b)
       /\ LET df == {i \in DOMAIN a : a[i] # b[i]}
          IN  df = {} \/ a[MaxOf(df)] > b[MaxOf(df)]

\* The number of binary digits of a.
BitLen(a) ==
    IF a = <<>> THEN 0
    ELSE BaseBits * (Len(a) - 1)
            + MinOf({k \in 1 .. BaseBits : Last(a) < Pow2(k)})

\* a * 2^k
Shl(a, k) ==
    IF a = <<>> THEN a
    ELSE Zeros(k \div BaseBits) \o MulSmall(a, Pow2(k % BaseBits), 0)

\* acc * 10^(hi - lo + 1) + the number ds[lo..hi] writes (the left half is
\* worked out before the right half is entered).
RECURSIVE HornerRange(_, _, _, _)
HornerRange(ds, lo, hi, acc) ==
    IF lo > hi THEN acc
    ELSE IF lo = hi THEN MulSmall(acc, 10, DigitVal(ds[lo]))
    ELSE LET left == HornerRange(ds, lo, (lo + hi) \div 2, acc)
         IN  IF left = <<>> THEN HornerRange(ds, (lo + hi) \div 2 + 1, hi, <<>>)
             ELSE HornerRange(ds, (lo + hi) \div 2 + 1, hi, left)

\* The number a decimal digit string writes.
BigOfDecimal(ds) == HornerRange(ds, 1, Len(ds), <<>>)

Pow10(n) == BigOfDecimal(<<"1">> \o [i \in 1 .. n |-> "0"])

\* Steps lo..hi of the binary long division by D: st.q holds the quotient's
\* digits so far (most significant first), st.r the remainder, doubled at
\* each step; when nothing remains the division has come out even.
RECURSIVE QuoRange(_, _, _, _)
QuoRange(D, lo, hi, st) ==
    IF lo > hi \/ st.r = <<>> THEN st
    ELSE IF lo = hi
    THEN IF BigGeq(st.r, D)
         THEN [q |-> Append(st.q, 1), r |-> MulSmall(BigSub(st.r, D), 2, 0)]
         ELSE [q |-> Append(st.q, 0), r |-> MulSmall(st.r, 2, 0)]
    ELSE QuoRange(D, (lo + hi) \div 2 + 1, hi,
                  QuoRange(D, lo, (lo + hi) \div 2, st))

\* IEEE 754 binary64: 53 significant binary digits, the least significant one
\* worth at least 2^-1074, values below 2^1024.
MantBits == 53

MinExp == -1074

MaxExp == 1024

\* A double: nan, an infinity, or (-1)^neg * mant * 2^exp, mant a tuple of
\* binary digits, most significant first, the last one 1 (zero: mant = <<>>,
\* exp = 0).
NaN == [kind |-> "nan"]

Inf(neg) == [kind |-> "inf", neg |-> neg]

Finite(neg, m, q) ==
    IF 1 \notin Range(m)
    THEN [kind |-> "finite", neg |-> neg, mant |-> <<>>, exp |-> 0]
    ELSE [kind |-> "finite", neg |-> neg,
          mant |-> SubSeq(m, 1, Len(m) - Trailing(m, 0)),
          exp |-> q + Trailing(m, 0)]

\* b + 1, on binary digits.
BinInc(b) ==
    LET zs == {i \in DOMAIN b : b[i] = 0}
    IN  IF zs = {} THEN <<1>> \o Zeros(Len(b))
        ELSE [i \in DOMAIN b |->
                IF i < MaxOf(zs) THEN b[i] ELSE IF i = MaxOf(zs) THEN 1 ELSE 0]

\* The double nearest to s * 2^-fb (plus a little when sticky), ties to even;
\* s has no leading zero; what is too large becomes an infinity.
RoundToDouble(neg, s, fb, sticky) ==
    LET L == Len(s)
        qlsb == IF L - MantBits - fb > MinExp THEN L - MantBits - fb ELSE MinExp
        d == qlsb + fb
    IN  IF s = <<>> \/ d > L THEN Finite(neg, <<>>, 0)
        ELSE IF d <= 0
        THEN IF L - fb > MaxExp THEN Inf(neg) ELSE Finite(neg, s, -fb)
        ELSE LET kept == SubSeq(s, 1, L - d)
                 half == s[L - d + 1] = 1
                 rest == sticky \/ \E i \in (L - d + 2) .. L : s[i] = 1
                 up == half /\ (rest \/ (kept # <<>> /\ Last(kept) = 1))
                 m == IF up THEN BinInc(kept) ELSE kept
             IN  IF m # <<>> /\ Len(m) + qlsb > MaxExp THEN Inf(neg)
                 ELSE Finite(neg, m, qlsb)

\* The double nearest to num/den: the quotient's binary digits from the one
\* worth 2^dl down, two more than a double keeps, or fewer when the division
\* comes out even.
DoubleOfRatio(neg, num, den) ==
    LET Rounded(dl, st) ==
            RoundToDouble(neg, StripLeading(st.q, 0), Len(st.q) - 1 - dl,
                          st.r # <<>>)
        Divided(dl) ==
            Rounded(dl,
                QuoRange(IF dl > 0 THEN Shl(den, dl) ELSE den, 1,
                         IF dl - MinExp + 3 < MantBits + 3 THEN dl - MinExp + 3
                         ELSE MantBits + 3,
                         [q |-> <<>>,
                          r |-> IF dl < 0 THEN Shl(num, -dl) ELSE num]))
    IN  Divided(BitLen(num) - BitLen(den))

\* The double nearest to ds * 10^e, ds a digit string without leading or
\* trailing zeros.
DoubleOfDecimal(neg, ds, e) ==
    IF ds = <<>> \/ Len(ds) + e < -323 THEN Finite(neg, <<>>, 0)
    ELSE IF Len(ds) + e > 309 THEN Inf(neg)
    ELSE DoubleOfRatio(neg, BigOfDecimal(ds \o [i \in 1 .. e |-> "0"]),
                       Pow10(IF e < 0 THEN -e ELSE 0))

LowerCase(c) ==
    CASE c = "A" -> "a" [] c = "E" -> "e" [] c = "F" -> "f" [] c = "I" -> "i"
      [] c = "N" -> "n" [] c = "T" -> "t" [] c = "Y" -> "y" [] OTHER -> c

\* The conversion keeps an exponent of at most nine significant digits as it
\* is written and takes any longer one for MAX_ABS_EXP; it refuses a numeral
\* of more than MAX_DIGITS digits (leading zeros not counted) or fraction
\* digits.
MAX_ABS_EXP == 1100000000

MAX_DIGITS == 1000000000

\* The exponent an exponent part writes.
ExponentOf(ex) ==
    LET Valued(ds) ==
            IF Len(ds) > 9 THEN MAX_ABS_EXP
            ELSE IF DecVal(ds) > MAX_ABS_EXP THEN MAX_ABS_EXP ELSE DecVal(ds)
        Sized(n) == IF Negative(ex) THEN -n ELSE n
    IN  Sized(Valued(StripLeading(DigitsOf(ex), "0")))

\* float(text): white space is stripped; then an optional sign and "inf",
\* "infinity" or "nan" in any case, or a decimal numeral: DigitParts around
\* at most one ".", at least one of them, and an optional exponent ("e" or
\* "E", an optional sign, a DigitPart).  Anything else raises ValueError.
\* The value is the double nearest to digits * 10^e, e the exponent less the
\* number of fraction digits.
PyFloat(s) ==
    LET Numeral(neg, ip, fp, ex, ds) ==
            IF /\ ip = <<>> \/ DigitPart(ip)
               /\ fp = <<>> \/ DigitPart(fp)
               /\ ip # <<>> \/ fp # <<>>
               /\ ex = None \/ DigitPart(Unsigned(TheValue(ex)))
               /\ Len(ds) <= MAX_DIGITS /\ Len(DigitsOf(fp)) <= MAX_DIGITS
            THEN [ok |-> TRUE,
                  val |-> DoubleOfDecimal(neg,
                            SubSeq(ds, 1, Len(ds) - Trailing(ds, "0")),
                            (IF ex = None THEN 0 ELSE ExponentOf(TheValue(ex)))
                                - Len(DigitsOf(fp)) + Trailing(ds, "0"))]
            ELSE [ok |-> FALSE]
        Pointed(neg, ip, fp, ex) ==
            Numeral(neg, ip, fp, ex,
                    StripLeading(DigitsOf(ip) \o DigitsOf(fp), "0"))
        Mantissa(neg, mt, ex, ps) ==
            IF ps = {} THEN Pointed(neg, mt, <<>>, ex)
            ELSE Pointed(neg, SubSeq(mt, 1, MinOf(ps) - 1),
                         SubSeq(mt, MinOf(ps) + 1, Len(mt)), ex)
        Split(neg, mt, ex) ==
            Mantissa(neg, mt, ex, {i \in DOMAIN mt : mt[i] = "."})
        Lowered(neg, u, es) ==
            IF u \in {<<"i", "n", "f">>, <<"i", "n", "f", "i", "n", "i", "t", "y">>}
            THEN [ok |-> TRUE, val |-> Inf(neg)]
            ELSE IF u = <<"n", "a", "n">> THEN [ok |-> TRUE, val |-> NaN]
            ELSE IF es = {} THEN Split(neg, u, None)
            ELSE Split(neg, SubSeq(u, 1, MinOf(es) - 1),
                       Some(SubSeq(u, MinOf(es) + 1, Len(u))))
        Signed(neg, v) ==
            Lowered(neg, [i \in DOMAIN v |-> LowerCase(v[i])],
                    {i \in DOMAIN v : LowerCase(v[i]) = "e"})
        Stripped(t) == Signed(Negative(t), Unsigned(t))
    IN  Stripped(Strip(s))

\* ------------------------------------------------------------ the extractor
\* The value of a reading: float(r.text), or the raw text when that raises
\* (the text of an element without text, <<>> here, is None in the code:
\* float(None) raises TypeError and the value is that None).
ReadingValue(text) ==
    LET Value(f) == IF f.ok THEN [num |-> TRUE, val |-> f.val]
                    ELSE [num |-> FALSE, val |-> text]
    IN  Value(PyFloat(text))

\* meas_types.get(p): the dict comprehension keeps the last entry of a key.
MeasTypesGet(types, p) ==
    LET idx == {i \in DOMAIN types : types[i].p = p}
    IN  IF idx = {} THEN None ELSE Some(types[MaxOf(idx)].text)

\* if config.measInfoId and measInfo.get('measInfoId') != config.measInfoId
BlockSkipped(block, cfg) ==
    /\ cfg.measInfoId # None
    /\ TheValue(cfg.measInfoId) # ""
    /\ block.measInfoId # TheValue(cfg.measInfoId)

\* Mutant of ValueSkipped: the object filter is only consulted when no
\* measInfoId filter is set.
ValueSkipped_OnlyWithoutId(mv, cfg) ==
    /\ cfg.measInfoId = None
    /\ cfg.objLdn_list # <<>>
    /\ mv.measObjLdn \notin Range(cfg.objLdn_list)

\* if config.objLdn_list and obj_ldn not in config.objLdn_list
ValueSkipped(mv, cfg) ==
    /\ cfg.objLdn_list # <<>>
    /\ mv.measObjLdn \notin Range(cfg.objLdn_list)

\* if config.p_value and p != str(config.p_value)
ReadingSkipped(r, cfg) ==
    /\ cfg.p_value # None
    /\ TheValue(cfg.p_value) # 0
    /\ r.p # PyStr(TheValue(cfg.p_value))

\* for r in measValue.findall('r'): the loop from reading k on; acc is the results
\* list appended to so far.  int(p) raising ends the loop with an exception.
RECURSIVE ReadingsLoop(_, _, _, _, _, _)
ReadingsLoop(rs, k, block, mv, cfg, acc) ==
    IF k > Len(rs) THEN [ok |-> TRUE, results |-> acc]
    ELSE IF ReadingSkipped(rs[k], cfg)
    THEN ReadingsLoop(rs, k + 1, block, mv, cfg, acc)
    ELSE LET Emit(value, index) ==
                 IF ~index.ok THEN [ok |-> FALSE, results |-> acc]
                 ELSE ReadingsLoop(rs, k + 1, block, mv, cfg,
                        Append(acc,
                               [endTime    |-> TheValue(block.granPeriod),
                                measInfoId |-> block.measInfoId,
                                measObjLdn |-> mv.measObjLdn,
                                p          |-> index.val,
                                value      |-> value,
                                measType   |-> MeasTypesGet(block.measTypes,
                                                            rs[k].p)]))
         IN  Emit(ReadingValue(rs[k].text), PyInt(rs[k].p))

\* for measValue in measInfo.findall('measValue')
RECURSIVE ValuesLoop(_, _, _, _, _)
ValuesLoop(mvs, j, block, cfg, acc) ==
    IF j > Len(mvs) THEN [ok |-> TRUE, results |-> acc]
    ELSE IF ValueSkipped(mvs[j], cfg)
    THEN ValuesLoop(mvs, j + 1, block, cfg, acc)
    ELSE LET After(inner) ==
                 IF inner.ok THEN ValuesLoop(mvs, j + 1, block, cfg, inner.results)
                 ELSE inner
         IN  After(ReadingsLoop(mvs[j].rs, 1, block, mvs[j], cfg, acc))

\* for measInfo in root.findall('measInfo'): a selected block whose granPeriod
\* element is missing raises on granPeriod.get (find returned None).
RECURSIVE BlocksLoop(_, _, _, _)
BlocksLoop(blocks, i, cfg, acc) ==
    IF i > Len(blocks) THEN [ok |-> TRUE, results |-> acc]
    ELSE IF BlockSkipped(blocks[i], cfg)
    THEN BlocksLoop(blocks, i + 1, cfg, acc)
    ELSE IF blocks[i].granPeriod = None THEN [ok |-> FALSE, results |-> acc]
    ELSE LET After(inner) ==
                 IF inner.ok THEN BlocksLoop(blocks, i + 1, cfg, inner.results)
                 ELSE inner
         IN  After(ValuesLoop(blocks[i].measValues, 1, blocks[i], cfg, acc))

\* The body of process_file: ET.parse raises on malformed XML before any
\* traversal; otherwise the traversal starts with results = [].
Traverse(d, cfg) ==
    IF ~d.wellformed THEN [ok |-> FALSE, results |-> <<>>]
    ELSE BlocksLoop(d.blocks, 1, cfg, <<>>)

\* Mutant of process_file: a failure returns the records gathered so far.
process_file_Partial(file_path, d, cfg) ==
    [kind |-> "return", records |-> Traverse(d, cfg).results]

\* process_file: return results, or raise PMError naming the path; the list
\* built so far is dropped with the frame.
process_file(file_path, d, cfg) ==
    LET Outcome(t) ==
            IF t.ok THEN [kind |-> "return", records |-> t.results]
            ELSE [kind |-> "raise", error |-> "PMError", path |-> file_path,
                  records |-> <<>>]
    IN  Outcome(Traverse(d, cfg))

\* --------------------------------------------------------- file resolution
\* A compiled pattern is a tuple of tokens: a literal character, "." (any
\* character but a newline) or ".*" (any run of such characters).
Lit(c) == [t |-> "lit", c |-> c]

AnyStar == [t |-> "anystar"]

\* DEFAULT_FILE_PATTERN = r'A.*\.xml'
DEFAULT_FILE_PATTERN ==
    <<Lit("A"), AnyStar, Lit("."), Lit("x"), Lit("m"), Lit("l")>>

\* The positions of s at which a match of pat[k..] can end when it starts at
\* one of the positions in S (0 = before the first character).
RECURSIVE MatchEnds(_, _, _, _)
MatchEnds(pat, k, s, S) ==
    IF k > Len(pat) THEN S
    ELSE MatchEnds(pat, k + 1, s,
            CASE pat[k].t = "lit" ->
                    {j + 1 : j \in {x \in S : x < Len(s) /\ s[x + 1] = pat[k].c}}
              [] pat[k].t = "any" ->
                    {j + 1 : j \in {x \in S : x < Len(s) /\ s[x + 1] # "\n"}}
              [] pat[k].t = "anystar" ->
                    UNION {{e \in j .. Len(s) : \A i \in j + 1 .. e : s[i] # "\n"} :
                           j \in S})

\* pattern.match(f): the pattern matches some prefix of f.
re_match(pat, s) == MatchEnds(pat, 1, s, {0}) # {}

\* pattern.fullmatch(f): the pattern matches the whole of f.
re_fullmatch(pat, s) == Len(s) \in MatchEnds(pat, 1, s, {0})

\* A path is the tuple of its components; os.path.join(directory, f).
path_join(d, f) == Append(d, f)

\* os.path.exists(path)
path_exists(fsys, p) == p \in DOMAIN fsys

\* os.path.isdir(path): os.listdir raises NotADirectoryError on an existing
\* path that is no directory.
isdir(fsys, p) == path_exists(fsys, p) /\ fsys[p].kind = "dir"

\* The names os.listdir(path) returns for a directory, in no particular order.
listdir(fsys, p) ==
    {q[Len(q)] : q \in {x \in DOMAIN fsys :
                        Len(x) = Len(p) + 1 /\ SubSeq(x, 1, Len(p)) = p}}

\* Truthiness of an Optional[str] path: None and "" are false.
Truthy(opt) == opt # None /\ TheValue(opt) # <<>>

\* _get_files_to_process; listing is what os.listdir returned (used only when
\* directory mode reaches it).
get_files_to_process(cfg, fsys, listing) ==
    IF Truthy(cfg.single_file) THEN
        IF ~path_exists(fsys, TheValue(cfg.single_file))
        THEN [ok |-> FALSE, error |-> "PMError", msg |-> "File not found"]
        ELSE [ok |-> TRUE, files |-> <<TheValue(cfg.single_file)>>]
    ELSE IF Truthy(cfg.directory) THEN
        IF ~path_exists(fsys, TheValue(cfg.directory))
        THEN [ok |-> FALSE, error |-> "PMError", msg |-> "Directory not found"]
        ELSE IF ~isdir(fsys, TheValue(cfg.directory))
        THEN [ok |-> FALSE, error |-> "NotADirectoryError", msg |-> "Not a directory"]
        ELSE [ok |-> TRUE,
              files |-> LET kept == SelectSeq(listing,
                                LAMBDA f : re_match(cfg.file_pattern, f))
                        IN  [i \in DOMAIN kept |->
                                path_join(TheValue(cfg.directory), kept[i])]]
    ELSE [ok |-> FALSE, error |-> "PMError",
          msg |-> "No input file or directory specified"]

\* --------------------------------------------------- documents and filters

\* The readings documents are built from; the p of the fifth one is U+00A0
\* followed by "1".
Readings ==
    { [p |-> <<"1">>,      text |-> <<"4", "2">>],
      [p |-> <<"0", "1">>, text |-> <<"-", "3", ".", "5", "e", "1">>],
      [p |-> <<"x">>,      text |-> <<"7">>],
      [p |-> <<"-", "1">>, text |-> <<"n", "a">>],
      [p |-> <<" ", "1">>, text |-> <<"4", "2", ".", "0", " ">>],
      [p |-> <<"2">>,      text |-> <<"i", "n", "f">>] }

\* One table of measType elements: p="1" twice (the later one wins), no
\* other p.
TypeTables ==
    { <<[p |-> <<"1">>, text |-> "att"], [p |-> <<"1">>, text |-> "succ"]>> }

BlockIds == {"A", "B"}

ObjLdns == {"Cell1", "Cell2"}

GranPeriods == {None, Some("T1")}

\* ParserConfig with its defaults (num_workers stands for cpu_count()).
DefaultConfig ==
    [single_file |-> None, directory |-> None,
     file_pattern |-> DEFAULT_FILE_PATTERN,
     measInfoId |-> None, p_value |-> None, objLdn_list |-> <<>>,
     num_workers |-> 1]

FilterConfigs ==
    { [DefaultConfig EXCEPT !.measInfoId = m, !.p_value = v, !.objLdn_list = l] :
        m \in {None, Some("A")}, v \in {None, Some(0), Some(1), Some(-1)},
        l \in {<<>>, <<"Cell1">>} }

XPath == "f.xml"

EmptyDoc == [wellformed |-> TRUE, blocks |-> <<>>]

DocSize(d) ==
    SumSeq([i \in DOMAIN d.blocks |->
        1 + SumSeq([j \in DOMAIN d.blocks[i].measValues |->
                1 + Len(d.blocks[i].measValues[j].rs)])])

\* ------------------------------------------------------------- SpecExtract
\* Documents come in two scopes: up to MaxNodes elements (blocks, value
\* elements, readings) of any kind above, and up to MaxPlainNodes elements
\* when every block and reading is a plain one (a plain block has its
\* granPeriod).  The two plain readings have the same counter index and the
\* same value (a text float() refuses), and the type table has no entry for
\* either: their records are equal wherever they stand side by side.
PlainReadings ==
    { [p |-> <<"-", "1">>,      text |-> <<"n", "a">>],
      [p |-> <<"-", "0", "1">>, text |-> <<"n", "a">>] }

PlainBlockKinds == {<<"A", Some("T1")>>, <<"B", Some("T1")>>}

Plain(d) ==
    \A i \in DOMAIN d.blocks :
        /\ <<d.blocks[i].measInfoId, d.blocks[i].granPeriod>> \in PlainBlockKinds
        /\ \A j \in DOMAIN d.blocks[i].measValues :
            \A k \in DOMAIN d.blocks[i].measValues[j].rs :
                d.blocks[i].measValues[j].rs[k] \in PlainReadings

InScope(d) ==
    \/ DocSize(d) <= MaxNodes
    \/ DocSize(d) <= MaxPlainNodes /\ Plain(d)

InitExtract ==
    /\ config = DefaultConfig
    /\ doc \in {EmptyDoc, [wellformed |-> FALSE, blocks |-> <<>>]}
    /\ out = [kind |-> "none"]
    /\ pc = "build"
    /\ fs = <<>> /\ hasHandler = FALSE /\ files = <<>> /\ futures = <<>>
    /\ completed = <<>> /\ collected = <<>> /\ results = <<>> /\ log = <<>>
    /\ writes = <<>> /\ outcome = [kind |-> "none"]

Grown(d) ==
    /\ InScope(d)
    /\ doc' = d
    /\ UNCHANGED <<config, out, pc, runVars>>

AddBlock ==
    /\ pc = "build" /\ doc.wellformed
    /\ \E id \in BlockIds, g \in GranPeriods, t \in TypeTables :
        Grown([doc EXCEPT !.blocks = Append(@,
                    [measInfoId |-> id, granPeriod |-> g, measTypes |-> t,
                     measValues |-> <<>>])])

AddValue ==
    /\ pc = "build" /\ doc.blocks # <<>>
    /\ \E ldn \in ObjLdns :
        Grown([doc EXCEPT !.blocks[Len(doc.blocks)].measValues =
                    Append(@, [measObjLdn |-> ldn, rs |-> <<>>])])

AddReading ==
    /\ pc = "build" /\ doc.blocks # <<>>
    /\ doc.blocks[Len(doc.blocks)].measValues # <<>>
    /\ \E r \in Readings \cup PlainReadings :
        Grown([doc EXCEPT !.blocks[Len(doc.blocks)]
                              .measValues[Len(doc.blocks[Len(doc.blocks)].measValues)]
                              .rs = Append(@, r)])

\* process_file(file_path, config) under one of the filter configurations.
Extract ==
    /\ pc = "build"
    /\ \E cfg \in FilterConfigs :
        /\ config' = cfg
        /\ out' = process_file(XPath, doc, cfg)
    /\ pc' = "extracted"
    /\ UNCHANGED <<doc, runVars>>

NextExtract == AddBlock \/ AddValue \/ AddReading \/ Extract

SpecExtract == InitExtract /\ [][NextExtract]_vars

\* ------------------------------------------------------------ process_files
\* What the worker process computes for one work item and what comes back.
\* process_file is declared "async def": the call fn(*args) in the worker
\* runs none of its body and yields a coroutine object.
CallInWorker(file, cfg) == [type |-> "coroutine", fn |-> "process_file"]

\* The worker sends its result back through a pickling queue; a coroutine
\* object cannot be pickled.
Picklable(obj) == obj.type # "coroutine"

\* The state the future of one work item ends in: its result, or the exception
\* raised while calling or while sending the result back.
FutureOutcome(file, cfg) ==
    LET r == CallInWorker(file, cfg)
    IN  IF Picklable(r) THEN [state |-> "done", ok |-> TRUE, value |-> r]
        ELSE [state |-> "done", ok |-> FALSE, exc |-> "TypeError"]

\* ProcessPoolExecutor(max_workers=n) raises ValueError unless n > 0.
ValidPoolWidth(n) == n > 0

Running == {i \in DOMAIN futures : futures[i].state = "running"}

\* Mutant of PoolHasFreeWorker: one worker fewer than configured.
PoolHasFreeWorker_OffByOne == Cardinality(Running) + 1 < config.num_workers

\* At most max_workers work items run at a time.
PoolHasFreeWorker == Cardinality(Running) < config.num_workers

\* Mutant of NoFilesFound: the check is left out.
NoFilesFound_Never(fl) == FALSE

\* if not files: raise PMError("No files found to process")
NoFilesFound(fl) == fl = <<>>

\* Mutant of LoopExhausted: the loop ends as soon as no finished future waits.
LoopExhausted_WhenIdle == completed = <<>>

\* "for future in asyncio.as_completed(futures)" has yielded every future.
LoopExhausted == Len(collected) = Len(futures)

Perms(S) ==
    {s \in [1 .. Cardinality(S) -> S] : \A i, j \in DOMAIN s : i # j => s[i] # s[j]}

Raised(error, msg) == [kind |-> "raise", error |-> error, msg |-> msg]

\* process_files up to the dispatch: resolve the files, refuse an empty list,
\* create the pool and submit one call per file.
ProcessFilesStart ==
    /\ pc = "start"
    /\ \E listing \in Perms(IF Truthy(config.directory)
                               /\ isdir(fs, TheValue(config.directory))
                            THEN listdir(fs, TheValue(config.directory))
                            ELSE {}) :
        LET got == get_files_to_process(config, fs, listing)
        IN  IF ~got.ok
            THEN /\ outcome' = Raised(got.error, got.msg)
                 /\ pc' = "raised"
                 /\ UNCHANGED <<files, futures>>
            ELSE IF NoFilesFound(got.files)
            THEN /\ outcome' = Raised("PMError", "No files found to process")
                 /\ files' = got.files
                 /\ pc' = "raised"
                 /\ UNCHANGED futures
            ELSE IF ~ValidPoolWidth(config.num_workers)
            THEN /\ outcome' = Raised("ValueError", "max_workers must be greater than 0")
                 /\ files' = got.files
                 /\ pc' = "raised"
                 /\ UNCHANGED futures
            ELSE /\ files' = got.files
                 /\ futures' = [i \in DOMAIN got.files |-> [state |-> "pending"]]
                 /\ pc' = "collect"
                 /\ UNCHANGED outcome
    /\ UNCHANGED <<config, fs, hasHandler, completed, collected, results, log,
                   writes, doc, out>>

\* A free worker takes the oldest pending work item.
WorkerStart(i) ==
    /\ pc = "collect"
    /\ i \in DOMAIN futures
    /\ futures[i].state = "pending"
    /\ \A j \in 1 .. i - 1 : futures[j].state # "pending"
    /\ PoolHasFreeWorker
    /\ futures' = [futures EXCEPT ![i] = [state |-> "running"]]
    /\ UNCHANGED <<config, fs, hasHandler, pc, files, completed, collected,
                   results, log, writes, outcome, doc, out>>

\* The worker is through with its item; the future completes.
WorkerFinish(i) ==
    /\ pc = "collect"
    /\ i \in DOMAIN futures
    /\ futures[i].state = "running"
    /\ futures' = [futures EXCEPT ![i] = FutureOutcome(files[i], config)]
    /\ completed' = Append(completed, i)
    /\ UNCHANGED <<config, fs, hasHandler, pc, files, collected, results, log,
                   writes, outcome, doc, out>>

\* One iteration of the as_completed loop: await the next finished future,
\* extend the aggregate with its result or log its exception.
Collect ==
    /\ pc = "collect"
    /\ completed # <<>>
    /\ LET i == Head(completed)
       IN  /\ IF futures[i].ok
              THEN results' = results \o futures[i].value /\ UNCHANGED log
              ELSE /\ log' = Append(log, [level |-> "error",
                                          msg |-> "Error processing file",
                                          exc |-> futures[i].exc])
                   /\ UNCHANGED results
           /\ collected' = Append(collected, i)
           /\ completed' = Tail(completed)
    /\ UNCHANGED <<config, fs, hasHandler, pc, files, futures, writes, outcome,
                   doc, out>>

\* set_output_handler(handler): any caller, at any time, sets or clears the
\* handler.
set_output_handler(handler) ==
    /\ hasHandler' = handler
    /\ UNCHANGED <<config, fs, pc, files, futures, completed, collected,
                   results, log, writes, outcome, doc, out>>

\* After the loop: with a handler set, its write is called with the
\* aggregate and awaited; without one the aggregate is returned.
Finish ==
    /\ pc = "collect"
    /\ LoopExhausted
    /\ IF hasHandler
       THEN /\ writes' = Append(writes, results)
            /\ pc' = "write"
            /\ UNCHANGED outcome
       ELSE /\ outcome' = [kind |-> "return", value |-> results]
            /\ pc' = "done"
            /\ UNCHANGED writes
    /\ UNCHANGED <<config, fs, hasHandler, files, futures, completed, collected,
                   results, log, doc, out>>

\* A record a handler may put into the list it is given.
HandlerRecord ==
    [endTime |-> "T0", measInfoId |-> "H", measObjLdn |-> "H", p |-> <<"0">>,
     value |-> [num |-> FALSE, val |-> <<>>], measType |-> None]

\* write(results) is given the list itself: what the list holds when the
\* call is over is up to the handler (the list as it was, emptied, or with a
\* record added).
HandlerLeaves(agg) == {agg, <<>>, Append(agg, HandlerRecord)}

\* The awaited write returns: process_files returns the list, as the handler
\* left it (results stays the aggregate as the loop built it).
WriteReturns ==
    /\ pc = "write"
    /\ \E left \in HandlerLeaves(results) :
        outcome' = [kind |-> "return", value |-> left]
    /\ pc' = "done"
    /\ UNCHANGED <<config, fs, hasHandler, files, futures, completed, collected,
                   results, log, writes, doc, out>>

\* The awaited write raises (an OSError, say): the exception leaves
\* process_files.
WriteRaises ==
    /\ pc = "write"
    /\ outcome' = Raised("OSError", "write")
    /\ pc' = "raised"
    /\ UNCHANGED <<config, fs, hasHandler, files, futures, completed, collected,
                   results, log, writes, doc, out>>

\* -------------------------------------------------------------- the inputs
\* The scenario document of the specification (section 8): one reading.
GoodDoc ==
    [wellformed |-> TRUE,
     blocks |-> <<[measInfoId |-> "A", granPeriod |-> Some("T1"),
                   measTypes |-> <<[p |-> <<"1", "0">>, text |-> "attTCHSeizures"]>>,
                   measValues |-> <<[measObjLdn |-> "Cell1",
                                     rs |-> <<[p |-> <<"1", "0">>,
                                               text |-> <<"4", "2">>]>>]>>]>>]

BadDoc == [wellformed |-> FALSE, blocks |-> <<>>]

\* A file that parses and holds no reading.
NoRecordDoc ==
    [wellformed |-> TRUE,
     blocks |-> <<[measInfoId |-> "A", granPeriod |-> Some("T1"),
                   measTypes |-> <<>>,
                   measValues |-> <<[measObjLdn |-> "Cell1", rs |-> <<>>]>>]>>]

Docs == {GoodDoc, BadDoc, NoRecordDoc}

\* File names: A.xml, Ab.xml, A.xmlz, bA.xml and A<newline>.xml; a
\* subdirectory: sub.
EntryList ==
    << <<"A", ".", "x", "m", "l">>,
       <<"A", "b", ".", "x", "m", "l">>,
       <<"A", ".", "x", "m", "l", "z">>,
       <<"b", "A", ".", "x", "m", "l">>,
       <<"A", "\n", ".", "x", "m", "l">> >>

EntryNames == Range(EntryList)

\* What the files of a directory hold: the names taken in the order of
\* EntryList, the files hold the documents of one of these runs in turn.
DocRuns ==
    { <<GoodDoc>>, <<BadDoc>>, <<NoRecordDoc>>, <<GoodDoc, BadDoc>>,
      <<BadDoc, NoRecordDoc>>, <<NoRecordDoc, GoodDoc>> }

DocOf(run, n) ==
    run[(((CHOOSE i \in DOMAIN EntryList : EntryList[i] = n) - 1) % Len(run)) + 1]

SubName == <<"s", "u", "b">>

SPath == << <<"s", ".", "x", "m", "l">> >>

DPath == << <<"d">> >>

\* r'b.*'
PatternB == <<Lit("b"), AnyStar>>

Patterns == {DEFAULT_FILE_PATTERN, PatternB}

FileNode(d) == [kind |-> "file", doc |-> d]

DirNode == [kind |-> "dir"]

\* The file systems: the single path absent or a file (with a reading or
\* without); the directory path absent, a regular file, or a directory with
\* at most MaxEntries regular files and possibly one subdirectory that itself
\* holds a file A.xml.
SingleParts ==
    {<<>>} \cup {[p \in {SPath} |-> FileNode(d)] : d \in {GoodDoc, NoRecordDoc}}

DirParts ==
    {<<>>} \cup {[p \in {DPath} |-> FileNode(GoodDoc)]} \cup
    UNION { UNION { { [p \in {DPath} \cup {path_join(DPath, n) : n \in names}
                              \cup sub |->
                        IF p = DPath \/ p = path_join(DPath, SubName) THEN DirNode
                        ELSE IF Len(p) = 3 THEN FileNode(GoodDoc)
                        ELSE FileNode(DocOf(run, p[2]))] :
                      run \in DocRuns } :
                    sub \in { {}, {path_join(DPath, SubName),
                                   path_join(path_join(DPath, SubName),
                                             <<"A", ".", "x", "m", "l">>)} } } :
            names \in {N \in SUBSET EntryNames : Cardinality(N) <= MaxEntries} }

\* Two functions with disjoint domains, as one.
Merge(f, g) ==
    [x \in (DOMAIN f) \cup (DOMAIN g) |-> IF x \in DOMAIN f THEN f[x] ELSE g[x]]

Init ==
    /\ \E sp \in SingleParts, dp \in DirParts : fs = Merge(sp, dp)
    /\ \E sf \in {Some(SPath), None}, dr \in {Some(DPath), None},
          pt \in Patterns, k \in 0 .. MaxWorkers :
        config = [DefaultConfig EXCEPT !.single_file = sf, !.directory = dr,
                                       !.file_pattern = pt,
                                       !.num_workers = MaxWorkers - k]
    /\ hasHandler = FALSE
    /\ pc = "start"
    /\ files = <<>> /\ futures = <<>> /\ completed = <<>> /\ collected = <<>>
    /\ results = <<>> /\ log = <<>> /\ writes = <<>>
    /\ outcome = [kind |-> "none"]
    /\ doc = EmptyDoc /\ out = [kind |-> "none"]

Next ==
    \/ \E handler \in BOOLEAN : set_output_handler(handler)
    \/ ProcessFilesStart
    \/ \E i \in DOMAIN futures : WorkerStart(i)
    \/ \E i \in DOMAIN futures : WorkerFinish(i)
    \/ Collect
    \/ Finish
    \/ WriteReturns
    \/ WriteRaises

Spec == Init /\ [][Next]_vars

\* The pool's workers and the event loop keep running: a work item that can
\* start starts, a running one finishes, a finished future is collected, the
\* code after the loop runs and the handler's write comes to an end.
SpecFair ==
    /\ Spec
    /\ WF_vars(\E i \in DOMAIN futures : WorkerStart(i))
    /\ WF_vars(\E i \in DOMAIN futures : WorkerFinish(i))
    /\ WF_vars(Collect)
    /\ WF_vars(Finish)
    /\ WF_vars(WriteReturns \/ WriteRaises)

\* ------------------------------------------------- process_files: claims
\* The document ET.parse finds at a resolved path (a directory does not parse).
DocAt(path) == IF fs[path].kind = "file" THEN fs[path].doc ELSE BadDoc

\* What extraction of the i-th resolved file yields.
Extraction(i) == process_file(files[i], DocAt(files[i]), config)

Succeeds(i) == Extraction(i).kind = "return"

BagOfSeq(sq) == [x \in Range(sq) |-> Cardinality({n \in DOMAIN sq : sq[n] = x})]

\* The records of every file whose extraction succeeds, file after file.
AllExtracted ==
    Concat([i \in DOMAIN files |->
                IF Succeeds(i) THEN Extraction(i).records ELSE <<>>])

Supplied(opt) == opt # None

ConfigMessages ==
    {"File not found", "Directory not found",
     "No input file or directory specified"}

\* C1: a run over a non-empty file list that reaches its end has taken every
\* file's future, returns normally, and its aggregate holds every record of
\* each file whose extraction succeeds and no record of any other file.
C1_PartialFailureIsolation ==
    pc = "done" =>
        /\ Len(collected) = Len(files)
        /\ outcome.kind = "return"
        /\ \A i \in DOMAIN files :
            Succeeds(i) => BagOfSeq(Extraction(i).records) \sqsubseteq BagOfSeq(results)
        /\ \A rec \in Range(results) :
            \E i \in DOMAIN files : Succeeds(i) /\ rec \in Range(Extraction(i).records)

\* What the loop has merged, in the order it took the futures.
Merged ==
    Concat([n \in DOMAIN collected |->
                IF futures[collected[n]].ok THEN futures[collected[n]].value
                ELSE <<>>])

\* C2 as stated: write is called at most once, only by the step after the
\* loop of a run whose handler is set, when every future is through, and with
\* the complete aggregate; a run with a handler whose resolution yields at
\* least one file goes on to that step, where a set handler is written to,
\* and any other run ends without a write.
C2_Original ==
    [][ /\ Len(writes') <= 1
        /\ writes' # writes =>
            /\ hasHandler /\ pc = "collect" /\ pc' = "write"
            /\ \A i \in DOMAIN futures : futures[i].state = "done"
            /\ Len(collected) = Len(files)
            /\ writes' = <<results>> /\ results = Merged
        /\ (hasHandler /\ pc = "start" /\ pc' # "start") =>
            IF files' # <<>>
            THEN pc' = "collect"
            ELSE pc' = "raised" /\ writes' = <<>>
        /\ (pc = "collect" /\ pc' # "collect") =>
            IF hasHandler THEN Len(writes') = 1 ELSE writes' = <<>>
      ]_vars

\* C2 amended: as C2, where the runs that go on to the step after the loop
\* are those whose resolution yields at least one file and whose pool width
\* is at least 1; a run that fails before the dispatch (no input configured,
\* a path that does not exist or is no directory, no file resolved, a pool
\* width below 1) never calls write.  The handler written to is the one set
\* when the loop has ended.
C2_SinkHandoff ==
    [][ /\ Len(writes') <= 1
        /\ writes' # writes =>
            /\ hasHandler /\ pc = "collect" /\ pc' = "write"
            /\ \A i \in DOMAIN futures : futures[i].state = "done"
            /\ Len(collected) = Len(files)
            /\ writes' = <<results>> /\ results = Merged
        /\ (hasHandler /\ pc = "start" /\ pc' # "start") =>
            IF files' # <<>> /\ config.num_workers >= 1
            THEN pc' = "collect"
            ELSE pc' = "raised" /\ writes' = <<>>
        /\ (pc = "collect" /\ pc' # "collect") =>
            IF hasHandler THEN Len(writes') = 1 ELSE writes' = <<>>
      ]_vars

C2_Witness ==
    /\ pc = "done"
    /\ Len(files) >= 2
    /\ writes = <<results>>

\* C3: for every pool width >= 1 the aggregate of a finished run is, as a
\* multiset, the union of what process_file yields for each file, so its
\* length is the sum of the per-file record counts, whatever the width and
\* the completion order.
C3_MergeOrderIndependence ==
    (pc = "done" /\ config.num_workers >= 1) =>
        /\ BagOfSeq(results) = BagOfSeq(AllExtracted)
        /\ Len(results) =
            SumSeq([i \in DOMAIN files |->
                        IF Succeeds(i) THEN Len(Extraction(i).records) ELSE 0])

\* C4: a run configured with neither or both of single file and directory,
\* or with a path that does not exist, has failed with a configuration error
\* and dispatched nothing.
C4_ConfigErrors ==
    ( /\ pc # "start"
      /\ \/ ~Supplied(config.single_file) /\ ~Supplied(config.directory)
         \/ Supplied(config.single_file) /\ Supplied(config.directory)
         \/ /\ Supplied(config.single_file)
            /\ ~path_exists(fs, TheValue(config.single_file))
         \/ /\ Supplied(config.directory)
            /\ ~path_exists(fs, TheValue(config.directory)) ) =>
        /\ outcome.kind = "raise" /\ outcome.error = "PMError"
        /\ outcome.msg \in ConfigMessages
        /\ futures = <<>>

\* The members of S in some order.
RECURSIVE AnyListing(_)
AnyListing(S) ==
    IF S = {} THEN <<>>
    ELSE LET x == CHOOSE y \in S : TRUE
         IN  <<x>> \o AnyListing(S \ {x})

\* Resolution succeeds and yields no file (whether the list is empty does not
\* depend on the order of the listing).
ResolvesToNothing ==
    LET got == get_files_to_process(config, fs,
                    AnyListing(IF Truthy(config.directory)
                                  /\ isdir(fs, TheValue(config.directory))
                               THEN listdir(fs, TheValue(config.directory))
                               ELSE {}))
    IN  got.ok /\ got.files = <<>>

\* An extraction that fails or yields no record.
YieldsNothing(e) == e.kind = "raise" \/ e.records = <<>>

\* C5 as stated: a run fails with "No files found to process" exactly when
\* resolution succeeds with zero files; a run whose resolved files all fail
\* extraction or all yield no record returns normally an empty aggregate.
\* (Second conjunct in contrapositive form: a run over resolved files that has
\* ended otherwise has a file whose extraction yields a record.)
C5_Original ==
    pc # "start" =>
        /\ (outcome.kind = "raise" /\ outcome.msg = "No files found to process")
            <=> ResolvesToNothing
        /\ (pc \in {"done", "raised"} /\ files # <<>>) =>
            \/ outcome = [kind |-> "return", value |-> <<>>] /\ results = <<>>
            \/ \E i \in DOMAIN files : ~YieldsNothing(Extraction(i))

\* C5 amended: as C5, where the run whose resolved files all yield nothing
\* ends as follows.  With a pool width below 1 it raises ValueError before
\* any dispatch.  Otherwise the aggregate the loop has built is empty; with
\* no output handler set then, the run returns it; with one, the run hands
\* it over and returns the list as the handler's write left it, or raises
\* what that write raised.
C5_EmptyResolutionVsEmptyResult ==
    pc # "start" =>
        /\ (outcome.kind = "raise" /\ outcome.msg = "No files found to process")
            <=> ResolvesToNothing
        /\ (pc \in {"done", "raised"} /\ files # <<>>) =>
            \/ IF config.num_workers < 1
               THEN /\ outcome.kind = "raise" /\ outcome.error = "ValueError"
                    /\ futures = <<>> /\ writes = <<>>
               ELSE /\ results = <<>>
                    /\ Len(collected) = Len(files)
                    /\ IF writes = <<>>
                       THEN outcome = [kind |-> "return", value |-> <<>>]
                       ELSE /\ writes = << <<>> >>
                            /\ \/ /\ outcome.kind = "return"
                                  /\ outcome.value \in HandlerLeaves(<<>>)
                               \/ outcome = Raised("OSError", "write")
            \/ \E i \in DOMAIN files : ~YieldsNothing(Extraction(i))

\* A run over several files, one that fails extraction and one that parses
\* to no record among them and none that yields a record, has handed the
\* empty aggregate to its handler and returned it.
C5_Witness ==
    /\ pc = "done"
    /\ Len(files) >= 2
    /\ \A i \in DOMAIN files : YieldsNothing(Extraction(i))
    /\ \E i \in DOMAIN files : Extraction(i).kind = "raise"
    /\ \E i \in DOMAIN files : Extraction(i) = [kind |-> "return", records |-> <<>>]
    /\ writes = << <<>> >>
    /\ outcome = [kind |-> "return", value |-> <<>>]

\* The other case of C5: a directory that holds files, none of which the
\* pattern resolves, ends the run with the no-input error.
C5_WitnessNoInput ==
    /\ pc = "raised"
    /\ outcome = Raised("PMError", "No files found to process")
    /\ ~Supplied(config.single_file)
    /\ listdir(fs, TheValue(config.directory)) # {}

\* C6: in directory mode the resolved list holds exactly the immediate
\* entries of the directory whose whole name matches the pattern, each joined
\* with the directory path, once.
C6_DirectoryResolution ==
    ( /\ pc # "start"
      /\ ~Truthy(config.single_file)
      /\ Truthy(config.directory)
      /\ isdir(fs, TheValue(config.directory)) ) =>
        LET d == TheValue(config.directory)
            whole == {f \in listdir(fs, d) : re_fullmatch(config.file_pattern, f)}
        IN  /\ Range(files) = {path_join(d, f) : f \in whole}
            /\ Len(files) = Cardinality(whole)

\* Every dispatched file is accounted for exactly once: taken once by the
\* loop, and then either merged or logged.
AccountedOnce ==
    /\ \A i \in DOMAIN files : Cardinality({n \in DOMAIN collected : collected[n] = i}) = 1
    /\ Len(collected) = Len(files)
    /\ Len(log) = Cardinality({i \in DOMAIN futures : ~futures[i].ok})

\* C9 as stated: once the files are dispatched (a non-empty list, a pool of
\* width >= 1), the run eventually reaches the hand-off and returns, every
\* file accounted for exactly once.
C9_Original ==
    (pc = "collect" /\ files # <<>> /\ config.num_workers >= 1)
        ~> (pc = "done" /\ outcome.kind = "return" /\ AccountedOnce)

\* C9 amended: once the files are dispatched, the run eventually reaches the
\* hand-off, every file accounted for exactly once, and ends: it returns, or
\* it raises what the write of its output handler raised.
C9_Termination ==
    (pc = "collect" /\ files # <<>> /\ config.num_workers >= 1)
        ~> ( /\ AccountedOnce
             /\ \/ pc = "done" /\ outcome.kind = "return"
                \/ /\ pc = "raised" /\ outcome = Raised("OSError", "write")
                   /\ writes = <<results>> )

C9_Witness ==
    /\ pc = "raised" /\ outcome = Raised("OSError", "write") /\ AccountedOnce
    /\ writes = <<results>>
    /\ Len(files) = MaxEntries
    /\ config.num_workers = 1

\* ---------------------------------------------------- extraction: claims
RecordOf(block, mv, r) ==
    [endTime    |-> TheValue(block.granPeriod),
     measInfoId |-> block.measInfoId,
     measObjLdn |-> mv.measObjLdn,
     p          |-> PyInt(r.p).val,
     value      |-> ReadingValue(r.text),
     measType   |-> MeasTypesGet(block.measTypes, r.p)]

\* The positions <<block, value element, reading>> of d.
Positions(d) ==
    UNION { UNION { { <<i, j, k>> : k \in DOMAIN d.blocks[i].measValues[j].rs } :
                    j \in DOMAIN d.blocks[i].measValues } :
            i \in DOMAIN d.blocks }

\* The readings of d at the positions in K, as records in document order
\* (block, then value element, then reading).
Projection(d, K) ==
    Concat([i \in DOMAIN d.blocks |->
        Concat([j \in DOMAIN d.blocks[i].measValues |->
            LET mv == d.blocks[i].measValues[j]
                ks == SelectSeq([k \in DOMAIN mv.rs |-> k],
                                LAMBDA k : <<i, j, k>> \in K)
            IN  [n \in DOMAIN ks |-> RecordOf(d.blocks[i], mv, mv.rs[ks[n]])]])])

\* The positions of the readings the code's three skip tests let through.
Kept(d, cfg) ==
    {t \in Positions(d) :
        /\ ~BlockSkipped(d.blocks[t[1]], cfg)
        /\ ~ValueSkipped(d.blocks[t[1]].measValues[t[2]], cfg)
        /\ ~ReadingSkipped(d.blocks[t[1]].measValues[t[2]].rs[t[3]], cfg)}

SelectedRecords(d, cfg) == Projection(d, Kept(d, cfg))

\* The file has the expected structure as far as cfg looks at it: it parses,
\* every selected block has its granPeriod, every selected reading an
\* integer p.
StructureOk(d, cfg) ==
    /\ d.wellformed
    /\ \A i \in DOMAIN d.blocks :
        ~BlockSkipped(d.blocks[i], cfg) =>
            /\ d.blocks[i].granPeriod # None
            /\ \A j \in DOMAIN d.blocks[i].measValues :
                LET mv == d.blocks[i].measValues[j]
                IN  ~ValueSkipped(mv, cfg) =>
                        \A k \in DOMAIN mv.rs :
                            ~ReadingSkipped(mv.rs[k], cfg) => PyInt(mv.rs[k].p).ok

NoFilter(cfg) ==
    [cfg EXCEPT !.measInfoId = None, !.p_value = None, !.objLdn_list = <<>>]

OnlyMeasInfoId(cfg) == [NoFilter(cfg) EXCEPT !.measInfoId = cfg.measInfoId]

OnlyObjLdn(cfg) == [NoFilter(cfg) EXCEPT !.objLdn_list = cfg.objLdn_list]

OnlyPValue(cfg) == [NoFilter(cfg) EXCEPT !.p_value = cfg.p_value]

\* The readings each filter of cfg lets through when it is applied alone.
KeptById(d, cfg) == Kept(d, OnlyMeasInfoId(cfg))

KeptByObjLdn(d, cfg) == Kept(d, OnlyObjLdn(cfg))

KeptByPValue(d, cfg) == Kept(d, OnlyPValue(cfg))

\* The positions of d in document order.
InOrder(d) ==
    Concat([i \in DOMAIN d.blocks |->
        Concat([j \in DOMAIN d.blocks[i].measValues |->
            [k \in DOMAIN d.blocks[i].measValues[j].rs |-> <<i, j, k>>]])])

\* recs holds one record for each reading at a position in K, in document
\* order (order lists the positions in that order): what is left of it when
\* the records of the readings outside J are struck out.
StruckOut(order, recs, K, J) ==
    LET ks == SelectSeq(order, LAMBDA t : t \in K)
        ns == SelectSeq([n \in DOMAIN ks |-> n], LAMBDA n : ks[n] \in J)
    IN  [m \in DOMAIN ns |-> recs[ns[m]]]

\* Conjunctive filters: each filter alone emits one record for each reading
\* it lets through, and the combination emits what is left of each of these
\* sequences when the records of the readings another filter rejects are
\* struck out; byId, byObjLdn and byPValue are the outcomes of extraction
\* under each filter alone, all the outcome under the combination.
Conjunctive(d, cfg, byId, byObjLdn, byPValue, all) ==
    LET Common(order, I, O, P) ==
            /\ Len(byId.records) = Cardinality(I)
            /\ Len(byObjLdn.records) = Cardinality(O)
            /\ Len(byPValue.records) = Cardinality(P)
            /\ all.records = StruckOut(order, byId.records, I, I \cap O \cap P)
            /\ all.records = StruckOut(order, byObjLdn.records, O, I \cap O \cap P)
            /\ all.records = StruckOut(order, byPValue.records, P, I \cap O \cap P)
    IN  /\ byId.kind = "return" /\ byObjLdn.kind = "return"
        /\ byPValue.kind = "return" /\ all.kind = "return"
        /\ Common(InOrder(d), KeptById(d, cfg), KeptByObjLdn(d, cfg),
                  KeptByPValue(d, cfg))

\* No reading passes the three filters (no block, no value element or no
\* reading matches).
NothingMatches(d, cfg) ==
    KeptById(d, cfg) \cap KeptByObjLdn(d, cfg) \cap KeptByPValue(d, cfg) = {}

\* C7 as stated: for every well-formed (parseable) file and every combination
\* of the three filters, extraction returns, and returns the intersection of
\* what each filter alone returns, reading by reading in document order; in
\* particular no matching element means an empty sequence, not an error.
C7_Original ==
    (pc = "extracted" /\ doc.wellformed) =>
        /\ Conjunctive(doc, config,
                       process_file(XPath, doc, OnlyMeasInfoId(config)),
                       process_file(XPath, doc, OnlyObjLdn(config)),
                       process_file(XPath, doc, OnlyPValue(config)), out)
        /\ NothingMatches(doc, config) =>
                out = [kind |-> "return", records |-> <<>>]

\* C7 amended: whenever extraction under each of the three filters alone
\* succeeds, extraction under their combination succeeds and returns the
\* intersection of what each filter alone returns, reading by reading in
\* document order; and a file that parses and in which nothing matches
\* yields an empty sequence, not an error, unless a block that passes the
\* measInfoId filter lacks its granPeriod element.  (out is the outcome of
\* extraction under config: it stands for the outcome under one filter alone
\* when config sets no other filter.)
C7_ConjunctiveFilters ==
    pc = "extracted" =>
        LET Settled(byId, byObjLdn, byPValue) ==
                ( /\ byId.kind = "return"
                  /\ byObjLdn.kind = "return"
                  /\ byPValue.kind = "return" ) =>
                    Conjunctive(doc, config, byId, byObjLdn, byPValue, out)
            Alone(cfg) ==
                IF cfg = config THEN out ELSE process_file(XPath, doc, cfg)
        IN  /\ Settled(Alone(OnlyMeasInfoId(config)),
                       Alone(OnlyObjLdn(config)),
                       Alone(OnlyPValue(config)))
            /\ ( /\ doc.wellformed
                 /\ NothingMatches(doc, config)
                 /\ \A i \in DOMAIN doc.blocks :
                        ~BlockSkipped(doc.blocks[i], config) =>
                            doc.blocks[i].granPeriod # None ) =>
                    out = [kind |-> "return", records |-> <<>>]

\* The three filters are set, at least two of them let through a part of the
\* readings only, not the same part, and a reading passes all three.
C7_Witness ==
    /\ pc = "extracted"
    /\ config.measInfoId = Some("A") /\ config.objLdn_list = <<"Cell1">>
    /\ config.p_value # None /\ TheValue(config.p_value) # 0
    /\ process_file(XPath, doc, OnlyMeasInfoId(config)).kind = "return"
    /\ process_file(XPath, doc, OnlyObjLdn(config)).kind = "return"
    /\ process_file(XPath, doc, OnlyPValue(config)).kind = "return"
    /\ out.kind = "return" /\ out.records # <<>>
    /\ Cardinality({KeptById(doc, config), KeptByObjLdn(doc, config),
                    KeptByPValue(doc, config)} \ {Positions(doc)}) >= 2

\* The int n, as int(p) yields it.
IntOf(n) == PyInt(PyStr(n)).val

\* What the claim says a set counter-index filter lets through: the readings
\* of selected blocks and value elements whose p parses to p_value.
ClaimedByIndex(d, cfg) ==
    Projection(d, {t \in Positions(d) :
        LET r == d.blocks[t[1]].measValues[t[2]].rs[t[3]]
        IN  /\ ~BlockSkipped(d.blocks[t[1]], cfg)
            /\ ~ValueSkipped(d.blocks[t[1]].measValues[t[2]], cfg)
            /\ PyInt(r.p).ok
            /\ PyInt(r.p).val = IntOf(TheValue(cfg.p_value))})

\* C8: whenever p_value is set to an integer, 0 included, the records a
\* successful extraction returns are exactly the readings of the selected
\* blocks and value elements whose p attribute parses to p_value, each with
\* that integer as its counter index.
C8_CounterIndexFilter ==
    (pc = "extracted" /\ config.p_value # None /\ out.kind = "return") =>
        /\ out.records = ClaimedByIndex(doc, config)
        /\ \A n \in DOMAIN out.records :
                out.records[n].p = IntOf(TheValue(config.p_value))

\* C10: a call returns the complete record sequence in document order when
\* the structure cfg looks at is sound, and otherwise raises one error naming
\* the path and hands back no record; a selected block without granPeriod
\* fails the file, a block the measInfoId filter excludes never does.
C10_AllOrNothing ==
    pc = "extracted" =>
        IF StructureOk(doc, config)
        THEN out.kind = "return" /\ out.records = SelectedRecords(doc, config)
        ELSE /\ out.kind = "raise" /\ out.error = "PMError" /\ out.path = XPath
             /\ out.records = <<>>

C10_Witness ==
    /\ pc = "extracted"
    /\ out.kind = "raise"
    /\ Traverse(doc, config).results # <<>>
    /\ \E i \in DOMAIN doc.blocks :
        ~BlockSkipped(doc.blocks[i], config) /\ doc.blocks[i].granPeriod = None

\* The other case of C10: a call returns the records of two blocks, those of
\* the block that comes first in the document first.
C10_WitnessInOrder ==
    /\ pc = "extracted"
    /\ out.kind = "return"
    /\ Len(doc.blocks) = 2
    /\ doc.blocks[1].measInfoId = "B" /\ doc.blocks[2].measInfoId = "A"
    /\ Len(out.records) = 2
    /\ out.records[1].measInfoId = "B" /\ out.records[2].measInfoId = "A"

====
